---- MODULE Spec2Model ----
(***************************************************************************)
(* A model of package httpauth (dhowden/httpauth): the Checker            *)
(* implementations, the authenticating http.Handler, the ServeMux wrapper *)
(* and the signing Client.                                                *)
(*                                                                        *)
(* Go strings are modelled as sequences of byte values (0..255), so that  *)
(* the Basic scheme's base64 encoding and first-colon split are computed  *)
(* rather than assumed.                                                   *)
(***************************************************************************)
EXTENDS Integers, Sequences, FiniteSets, TLC

\* The fields of the model's records.  Every record below lists its fields
\* in this order, which is the order TLC then keeps them in.
FieldNames ==
    [ Body |-> "Body", Client |-> "Client", Code |-> "Code", Handler |-> "Handler",
      Header |-> "Header", Pass |-> "Pass", ServeMux |-> "ServeMux",
      Signer |-> "Signer", User |-> "User",
      auth |-> "auth", b |-> "b", body |-> "body", bytes |-> "bytes",
      c |-> "c", client |-> "client", contentType |-> "contentType", d |-> "d",
      err |-> "err", events |-> "events", f |-> "f", fn |-> "fn",
      h |-> "h", invoked |-> "invoked", isNil |-> "isNil", kind |-> "kind",
      kv |-> "kv", m |-> "m", method |-> "method", ok |-> "ok",
      op |-> "op", out |-> "out", p |-> "p", password |-> "password",
      pc |-> "pc", pre |-> "pre", r |-> "r", req |-> "req",
      resp |-> "resp", result |-> "result", s |-> "s", u |-> "u", url |-> "url",
      username |-> "username", w |-> "w", which |-> "which", wroteHeader |-> "wroteHeader" ]

(* ------------------------------------------------------------------ *)
(* Strings                                                            *)
(* ------------------------------------------------------------------ *)

\* The empty Go string "".
EmptyString == << >>

\* s[from:] of a Go string (from is a 0-based byte offset).
Drop(s, from) == SubSeq(s, from + 1, Len(s))

\* s[:to] of a Go string.
Take(s, to) == SubSeq(s, 1, to)

\* ASCII lower-casing of one byte, as ascii.EqualFold compares.
Lower(b) == IF b >= 65 /\ b <= 90 THEN b + 32 ELSE b

\* ascii.EqualFold(s, t).
EqualFold(s, t) ==
    /\ Len(s) = Len(t)
    /\ \A i \in 1..Len(s) : Lower(s[i]) = Lower(t[i])

\* strings.Index(s, ":") as a 1-based position, 0 when there is no colon.
RECURSIVE IndexColonFrom(_, _)
IndexColonFrom(s, i) ==
    IF i > Len(s) THEN 0
    ELSE IF s[i] = 58 THEN i
    ELSE IndexColonFrom(s, i + 1)

IndexColon(s) == IndexColonFrom(s, 1)

(* ------------------------------------------------------------------ *)
(* base64.StdEncoding                                                 *)
(* ------------------------------------------------------------------ *)

\* The byte of the standard alphabet that encodes the 6-bit value v.
EncodeChar(v) ==
    IF v < 26 THEN 65 + v
    ELSE IF v < 52 THEN 97 + (v - 26)
    ELSE IF v < 62 THEN 48 + (v - 52)
    ELSE IF v = 62 THEN 43
    ELSE 47

\* The 6-bit value a byte of the standard alphabet stands for, -1 for a
\* byte outside the alphabet.
DecodeChar(c) ==
    IF c >= 65 /\ c <= 90 THEN c - 65
    ELSE IF c >= 97 /\ c <= 122 THEN c - 97 + 26
    ELSE IF c >= 48 /\ c <= 57 THEN c - 48 + 52
    ELSE IF c = 43 THEN 62
    ELSE IF c = 47 THEN 63
    ELSE -1

\* base64.StdEncoding.EncodeToString: three bytes become four characters,
\* a final group of one or two bytes is padded with '='.
RECURSIVE Base64Encode(_)
Base64Encode(b) ==
    IF Len(b) = 0 THEN << >>
    ELSE IF Len(b) = 1 THEN
        << EncodeChar(b[1] \div 4), EncodeChar((b[1] % 4) * 16), 61, 61 >>
    ELSE IF Len(b) = 2 THEN
        << EncodeChar(b[1] \div 4),
           EncodeChar((b[1] % 4) * 16 + (b[2] \div 16)),
           EncodeChar((b[2] % 16) * 4), 61 >>
    ELSE
        << EncodeChar(b[1] \div 4),
           EncodeChar((b[1] % 4) * 16 + (b[2] \div 16)),
           EncodeChar((b[2] % 16) * 4 + (b[3] \div 64)),
           EncodeChar(b[3] % 64) >> \o Base64Encode(Drop(b, 3))

\* The decoder skips '\r' and '\n' wherever they stand.
RECURSIVE StripNewlines(_)
StripNewlines(s) ==
    IF Len(s) = 0 THEN << >>
    ELSE IF s[1] = 10 \/ s[1] = 13 THEN StripNewlines(Drop(s, 1))
    ELSE << s[1] >> \o StripNewlines(Drop(s, 1))

\* The groups of four characters of base64.StdEncoding.DecodeString:
\* [ok, bytes].  Padding is required and allowed only at the end of the last
\* group; a byte outside the alphabet is an error.  The unused low bits of a
\* padded group are not checked (the encoding is not Strict).
RECURSIVE DecodeGroups(_)
DecodeGroups(s) ==
    IF Len(s) = 0 THEN [bytes |-> << >>, ok |-> TRUE]
    ELSE IF Len(s) < 4 THEN [bytes |-> << >>, ok |-> FALSE]
    ELSE
        LET v1 == DecodeChar(s[1])
            v2 == DecodeChar(s[2])
            v3 == DecodeChar(s[3])
            v4 == DecodeChar(s[4])
            last == Len(s) = 4
            bad == [bytes |-> << >>, ok |-> FALSE]
        IN  IF v1 < 0 \/ v2 < 0 THEN bad
            ELSE IF s[3] = 61 THEN
                IF last /\ s[4] = 61
                THEN [bytes |-> << v1 * 4 + (v2 \div 16) >>, ok |-> TRUE]
                ELSE bad
            ELSE IF v3 < 0 THEN bad
            ELSE IF s[4] = 61 THEN
                IF last
                THEN [bytes |-> << v1 * 4 + (v2 \div 16),
                                   (v2 % 16) * 16 + (v3 \div 4) >>,
                      ok |-> TRUE]
                ELSE bad
            ELSE IF v4 < 0 THEN bad
            ELSE
                LET rest == DecodeGroups(Drop(s, 4))
                IN  IF rest.ok
                    THEN [bytes |-> << v1 * 4 + (v2 \div 16),
                                       (v2 % 16) * 16 + (v3 \div 4),
                                       (v3 % 4) * 64 + v4 >> \o rest.bytes,
                          ok |-> TRUE]
                    ELSE bad

\* base64.StdEncoding.DecodeString: [ok, bytes].
Base64Decode(s) == DecodeGroups(StripNewlines(s))

(* ------------------------------------------------------------------ *)
(* http.Request: the Authorization header                             *)
(* ------------------------------------------------------------------ *)

\* "Basic " (the scheme token and one space).
BasicPrefix == << 66, 97, 115, 105, 99, 32 >>

\* http.Header.Get("Authorization"): the first value, "" when there is none.
\* A request is [url, auth], auth being the list of Authorization values.
HeaderGet(values) == IF Len(values) = 0 THEN EmptyString ELSE values[1]

\* http.Header.Set: the list of values is replaced by the one value.
HeaderSet(values, v) == << v >>

\* http.Header.Add: the value is appended to the list of values.
HeaderAdd(values, v) == Append(values, v)

\* (*http.Request).SetBasicAuth(username, password).
SetBasicAuth(r, username, password) ==
    [r EXCEPT !.auth =
        HeaderSet(@, BasicPrefix \o Base64Encode(username \o << 58 >> \o password))]

\* (*http.Request).BasicAuth(): [username, password, ok].
BasicAuth(r) ==
    LET auth == HeaderGet(r.auth)
        none == [ok |-> FALSE,
                 password |-> EmptyString,
                 username |-> EmptyString]
    IN  IF auth = EmptyString THEN none
        ELSE IF Len(auth) < Len(BasicPrefix)
                \/ ~EqualFold(Take(auth, Len(BasicPrefix)), BasicPrefix)
        THEN none
        ELSE
            LET c == Base64Decode(Drop(auth, Len(BasicPrefix)))
                i == IndexColon(c.bytes)
            IN  IF ~c.ok THEN none
                ELSE IF i = 0 THEN none
                ELSE [ok |-> TRUE,
                      password |-> Drop(c.bytes, i),
                      username |-> Take(c.bytes, i - 1)]

(* ------------------------------------------------------------------ *)
(* State                                                              *)
(* ------------------------------------------------------------------ *)

VARIABLES
    store,        \* the map[string]string the owner passed to Creds: [isNil, kv]
    storeAtCreds, \* the content that map had when Creds(m) was called
    hnd,          \* the http.Handler under test, built by NewHandler/HandlerFunc
    last,         \* the last call made on the server side since the map and
                  \* the handler under test last changed: a direct Check
                  \* call or a served request, with its inputs and outcome;
                  \* for a routed request also its position inside
                  \* ServeMux.ServeHTTP (handler found, handler done)
    mux,          \* the *http.ServeMux wrapped by ServeMux: pattern -> handler
    defaultMux,   \* http.DefaultServeMux: pattern -> handler
    muxChecker,   \* the Checker of the ServeMux wrapper
    reqs,         \* the requests of the concurrent server: per request its
                  \* pc, request, recorder, Check result and invocations
    signer,       \* the Signer of the Client
    lastCall      \* the caller's Client call, in progress or returned: its
                  \* position, its events in order and its result

vars == << store, storeAtCreds, hnd, last, mux, defaultMux, muxChecker,
           reqs, signer, lastCall >>

(* ------------------------------------------------------------------ *)
(* Bounds and input sets                                              *)
(* ------------------------------------------------------------------ *)

\* The longest password the owner stores or a client sends.
MaxPassLen == 1

\* The number of requests the concurrent server has in flight.
NumReqs == 2

\* The usernames the owner stores: "" and "a".
Users == { EmptyString, << 97 >> }

\* The usernames requests present: the stored ones and "A".
ReqUsers == Users \cup { << 65 >> }

\* Password bytes: 'p' and ':'.
PassBytes == { 112, 58 }

\* Passwords: every string over PassBytes of at most MaxPassLen bytes.
Passes == UNION { [1..n -> PassBytes] : n \in 0..MaxPassLen }

(* ------------------------------------------------------------------ *)
(* Checker implementations                                            *)
(* ------------------------------------------------------------------ *)

\* A Go map[string]string: the nil map, or a finite mapping.
NilMap == [isNil |-> TRUE, kv |-> << >>]

MakeMap(f) == [isNil |-> FALSE, kv |-> f]

\* p, ok := m[k]: the zero value "" and false for a missing key, also on
\* the nil map.
MapLookup(m, k) ==
    IF k \in DOMAIN m.kv
    THEN [ok |-> TRUE, p |-> m.kv[k]]
    ELSE [ok |-> FALSE, p |-> EmptyString]

\* Creds(m): the checker keeps the map it was given (a Go map is a
\* reference: m names the map object, here the variable store).
Creds(m) == [kind |-> "creds", m |-> m]

\* Mutant: the checker reads a copy taken when Creds(m) was called.
DerefSnapshot(m) == storeAtCreds

\* The map object a reference names.
Deref(m) == store

\* Mutant: the lookup's ok is dropped, so a missing key compares as "".
CredsCheckNoOk(c, username, password) ==
    MapLookup(Deref(c.m), username).p = password

\* creds.Check.
CredsCheck(c, username, password) ==
    LET l == MapLookup(Deref(c.m), username)
    IN  l.ok /\ l.p = password

\* None{}.
None == [kind |-> "None"]

\* Mutant: empty credentials are turned away.
NoneCheckNonEmpty(username, password) == username # EmptyString

\* None.Check.
NoneCheck(username, password) == TRUE

\* fixedChecker(b) of the tests.
fixedChecker(b) == [b |-> b, kind |-> "fixedChecker"]

\* fixedChecker.Check.
FixedCheckerCheck(c, username, password) == c.b

\* c.Check(username, password) on the Checker interface.
Check(c, username, password) ==
    CASE c.kind = "creds" -> CredsCheck(c, username, password)
      [] c.kind = "None" -> NoneCheck(username, password)
      [] c.kind = "fixedChecker" -> FixedCheckerCheck(c, username, password)

\* The checkers Check is called on directly (TestCreds, TestNone).
DirectCheckers == { Creds("m"), None }

\* The checkers a handler is configured with.
Checkers == { Creds("m"), None, fixedChecker(TRUE), fixedChecker(FALSE) }

(* ------------------------------------------------------------------ *)
(* httptest.ResponseRecorder                                          *)
(* ------------------------------------------------------------------ *)

StatusOK == 200

StatusUnauthorized == 401

\* http.StatusText.
StatusText(code) ==
    CASE code = StatusOK -> "OK"
      [] code = StatusUnauthorized -> "Unauthorized"

\* httptest.NewRecorder(): Code 200, no headers, empty body.
NewRecorder ==
    [Body |-> "", Code |-> StatusOK, Header |-> << >>, wroteHeader |-> FALSE]

\* The header names the program and the recorder use, as Go strings.
\* "WWW-Authenticate", the spelling handler.ServeHTTP passes to Add.
WWWAuthenticate ==
    << 87, 87, 87, 45, 65, 117, 116, 104, 101, 110, 116, 105, 99, 97, 116, 101 >>

\* "Content-Type".
ContentType == << 67, 111, 110, 116, 101, 110, 116, 45, 84, 121, 112, 101 >>

\* "Transfer-Encoding".
TransferEncoding ==
    << 84, 114, 97, 110, 115, 102, 101, 114, 45, 69, 110, 99, 111, 100, 105,
       110, 103 >>

\* "X-Content-Type-Options".
XContentTypeOptions ==
    << 88, 45, 67, 111, 110, 116, 101, 110, 116, 45, 84, 121, 112, 101, 45,
       79, 112, 116, 105, 111, 110, 115 >>

\* textproto: a byte allowed in a header field name (an RFC 7230 token
\* character: a letter, a digit, or one of !#$%&'*+-.^_`|~).
ValidHeaderFieldByte(c) ==
    \/ c >= 48 /\ c <= 57
    \/ c >= 65 /\ c <= 90
    \/ c >= 97 /\ c <= 122
    \/ c \in { 33, 35, 36, 37, 38, 39, 42, 43, 45, 46, 94, 95, 96, 124, 126 }

\* textproto.CanonicalMIMEHeaderKey(s): the first letter and every letter
\* after a hyphen in upper case, the other letters in lower case; a key
\* holding a byte that is not a token character is returned unchanged.
CanonicalMIMEHeaderKey(s) ==
    IF \E i \in 1..Len(s) : ~ValidHeaderFieldByte(s[i]) THEN s
    ELSE [ i \in 1..Len(s) |->
            IF i = 1 \/ s[i - 1] = 45
            THEN (IF s[i] >= 97 /\ s[i] <= 122 THEN s[i] - 32 ELSE s[i])
            ELSE Lower(s[i]) ]

\* w.Header().Get(key): the first value stored under the canonical key,
\* "" when there is none.
ResponseHeaderGet(w, key) ==
    LET k == CanonicalMIMEHeaderKey(key)
    IN  IF k \in DOMAIN w.Header /\ Len(w.Header[k]) > 0
        THEN w.Header[k][1] ELSE ""

\* w.Header().Set(key, value): one value under the canonical key.
ResponseHeaderSet(w, key, value) ==
    LET k == CanonicalMIMEHeaderKey(key)
    IN  [w EXCEPT !.Header =
            [ n \in DOMAIN w.Header \cup { k } |->
                IF n = k THEN << value >> ELSE w.Header[n] ]]

\* w.Header().Add(key, value): the value joins those stored under the
\* canonical key.
ResponseHeaderAdd(w, key, value) ==
    LET k == CanonicalMIMEHeaderKey(key)
    IN  [w EXCEPT !.Header =
            [ n \in DOMAIN w.Header \cup { k } |->
                IF n = k
                THEN HeaderAdd(IF k \in DOMAIN w.Header THEN w.Header[k]
                               ELSE << >>, value)
                ELSE w.Header[n] ]]

\* w.WriteHeader(code): only the first call sets the status.
WriteHeader(w, code) ==
    IF w.wroteHeader THEN w
    ELSE [w EXCEPT !.Code = code, !.wroteHeader = TRUE]

\* http.DetectContentType(b) for the bodies written here ("OK",
\* "Unauthorized", "404 page not found\n"): plain ASCII text without a
\* signature of another type.
DetectContentType(b) == "text/plain; charset=utf-8"

\* w.Write(b).  Before the first WriteHeader the recorder fills in a
\* Content-Type when the map has no "Content-Type" key and no
\* Transfer-Encoding value, and writes status 200; then the body grows.
Write(w, b) ==
    LET w0 == IF ~w.wroteHeader
                 /\ ContentType \notin DOMAIN w.Header
                 /\ ResponseHeaderGet(w, TransferEncoding) = ""
              THEN ResponseHeaderSet(w, ContentType, DetectContentType(b))
              ELSE w
        w1 == WriteHeader(w0, StatusOK)
    IN  [w1 EXCEPT !.Body = @ \o b]

(* ------------------------------------------------------------------ *)
(* Handlers                                                           *)
(* ------------------------------------------------------------------ *)

\* The downstream handlers of the tests: http.HandlerFunc(handlerFuncOK),
\* told apart by the name they are registered under.
Downstreams == { "d1", "d2" }

Downstream(d) == [d |-> d, kind |-> "handlerFuncOK"]

\* handlerFuncOK: WriteHeader(200), Write("OK").  The invocation is
\* recorded with the request and the recorder it was handed.
HandlerFuncOK(h, st, r) ==
    [invoked |-> Append(st.invoked, [d |-> h.d, r |-> r, w |-> st.w]),
     w |-> Write(WriteHeader(st.w, StatusOK), StatusText(StatusOK))]

\* NewHandler(c, h): &handler{Handler: h, c: c}.
NewHandler(c, h) == [Handler |-> h, c |-> c, kind |-> "handler"]

\* Mutant: the function is returned as it came, without the check.
HandlerFuncUnwrapped(c, f) == f

\* HandlerFunc(c, f): http.HandlerFunc(NewHandler(c, f).ServeHTTP).
HandlerFunc(c, f) == [f |-> NewHandler(c, f), kind |-> "HandlerFunc"]

\* The Checker a handler built by NewHandler or HandlerFunc holds.
CheckerOf(h) == IF h.kind = "HandlerFunc" THEN h.f.c ELSE h.c

\* The downstream handler it wraps.
DownstreamOf(h) == IF h.kind = "HandlerFunc" THEN h.f.Handler ELSE h.Handler

\* The rejection handler.ServeHTTP writes when Check returns false.
Reject(w) ==
    Write(WriteHeader(ResponseHeaderAdd(w, WWWAuthenticate, "Basic"),
                      StatusUnauthorized),
          StatusText(StatusUnauthorized))

\* h.ServeHTTP(w, r) on the http.Handler interface; st is [w, invoked].
RECURSIVE ServeHTTP(_, _, _)

\* Mutant: the return after the rejection is missing.
HandlerServeHTTPNoReturn(h, st, r) ==
    LET ba == BasicAuth(r)
    IN  IF ~Check(h.c, ba.username, ba.password)
        THEN ServeHTTP(h.Handler, [st EXCEPT !.w = Reject(st.w)], r)
        ELSE ServeHTTP(h.Handler, st, r)

\* Mutant: the challenge header is set before the check.
HandlerServeHTTPHeaderFirst(h, st, r) ==
    LET ba == BasicAuth(r)
        st1 == [st EXCEPT !.w = ResponseHeaderAdd(@, WWWAuthenticate, "Basic")]
    IN  IF ~Check(h.c, ba.username, ba.password)
        THEN [st EXCEPT !.w = Reject(st.w)]
        ELSE ServeHTTP(h.Handler, st1, r)

\* Mutant: a request without usable credentials is rejected before Check.
HandlerServeHTTPRequireOk(h, st, r) ==
    LET ba == BasicAuth(r)
    IN  IF ~ba.ok \/ ~Check(h.c, ba.username, ba.password)
        THEN [st EXCEPT !.w = Reject(st.w)]
        ELSE ServeHTTP(h.Handler, st, r)

\* (*handler).ServeHTTP.
HandlerServeHTTP(h, st, r) ==
    LET ba == BasicAuth(r)
    IN  IF ~Check(h.c, ba.username, ba.password)
        THEN [st EXCEPT !.w = Reject(st.w)]
        ELSE ServeHTTP(h.Handler, st, r)

ServeHTTP(h, st, r) ==
    CASE h.kind = "handlerFuncOK" -> HandlerFuncOK(h, st, r)
      [] h.kind = "handler" -> HandlerServeHTTP(h, st, r)
      [] h.kind = "HandlerFunc" -> ServeHTTP(h.f, st, r)

(* ------------------------------------------------------------------ *)
(* Requests                                                           *)
(* ------------------------------------------------------------------ *)

\* URLs: two that parse and one that url.Parse rejects.
ValidURLs == { "/f", "/h" }

InvalidURL == "%zz"

\* http.NewRequest(method, url, body): [err, req]; the error is that of
\* url.Parse.
NewRequest(method, url, body) ==
    IF url = InvalidURL
    THEN [err |-> "parse", req |-> "nil"]
    ELSE [err |-> "nil",
          req |-> [auth |-> << >>,
                   body |-> body,
                   contentType |-> "",
                   method |-> method,
                   url |-> url]]

\* The Authorization value a Basic client sends for (u, p).
BasicValue(u, p) == BasicPrefix \o Base64Encode(u \o << 58 >> \o p)

\* Authorization values that carry no usable Basic credentials:
\*   "Basic"          the scheme without a space and credentials
\*   "Bearer YTpw"    another scheme
\*   "Basic !!!!"     not base64
\*   "Basic YTp"      truncated base64
\*   "Basic YQ=="     base64 of "a": no colon
BadAuthValues ==
    { << 66, 97, 115, 105, 99 >>,
      << 66, 101, 97, 114, 101, 114, 32, 89, 84, 112, 119 >>,
      BasicPrefix \o << 33, 33, 33, 33 >>,
      BasicPrefix \o << 89, 84, 112 >>,
      BasicPrefix \o << 89, 81, 61, 61 >> }

\* "basic YTpw": the scheme in lower case, credentials a:p.
LowerCaseValue == << 98, 97, 115, 105, 99, 32, 89, 84, 112, 119 >>

\* The Authorization header lists of the requests served: none, one
\* well-formed value, one value without credentials, the lower-case scheme.
AuthInputs ==
    { << >> }
    \cup { << BasicValue(u, p) >> : u \in ReqUsers, p \in Passes }
    \cup { << v >> : v \in BadAuthValues }
    \cup { << LowerCaseValue >> }

\* The GET request of the tests, with the Authorization values a.
GetRequest(url, a) == [NewRequest("GET", url, "").req EXCEPT !.auth = a]

(* ------------------------------------------------------------------ *)
(* The server: one handler, direct Check calls, the owner's map       *)
(* ------------------------------------------------------------------ *)

\* The maps an owner starts with: nil, empty, and the map of TestCreds
\* scaled to the model's strings.
InitialMaps ==
    { NilMap, MakeMap(<< >>), MakeMap((<< 97 >> :> << 112 >>)) }

NoCall == [kind |-> "none"]

\* The owner writes m[u] = p (a write to the nil map panics: no state
\* change).
OwnerSet(u, p) ==
    /\ ~store.isNil
    /\ store' = [store EXCEPT !.kv = (u :> p) @@ @]
    /\ store' # store
    /\ last' = NoCall
    /\ UNCHANGED << storeAtCreds, hnd, mux, defaultMux, muxChecker,
                    reqs, signer, lastCall >>

\* The owner calls delete(m, u) (a no-op on the nil map).
OwnerDelete(u) ==
    /\ u \in DOMAIN store.kv
    /\ store' = [store EXCEPT !.kv = [k \in (DOMAIN @) \ {u} |-> @[k]]]
    /\ last' = NoCall
    /\ UNCHANGED << storeAtCreds, hnd, mux, defaultMux, muxChecker,
                    reqs, signer, lastCall >>

\* The handler under test is rebuilt: NewHandler(c, h).
BuildHandler(c) ==
    /\ hnd' = NewHandler(c, Downstream("d1"))
    /\ hnd' # hnd
    /\ last' = NoCall
    /\ UNCHANGED << store, storeAtCreds, mux, defaultMux, muxChecker,
                    reqs, signer, lastCall >>

\* The handler under test is rebuilt: HandlerFunc(c, f).
BuildHandlerFunc(c) ==
    /\ hnd' = HandlerFunc(c, Downstream("d1"))
    /\ hnd' # hnd
    /\ last' = NoCall
    /\ UNCHANGED << store, storeAtCreds, mux, defaultMux, muxChecker,
                    reqs, signer, lastCall >>

\* c.Check(u, p) is called directly.
CheckCall(c, u, p) ==
    /\ last' = [c |-> c,
                kind |-> "check",
                p |-> p,
                result |-> Check(c, u, p),
                u |-> u]
    /\ UNCHANGED << store, storeAtCreds, hnd, mux, defaultMux, muxChecker,
                    reqs, signer, lastCall >>

\* h.ServeHTTP(httptest.NewRecorder(), r) on the handler under test.
Serve(r) ==
    /\ LET res == ServeHTTP(hnd, [invoked |-> << >>, w |-> NewRecorder], r)
       IN  last' = [h |-> hnd,
                    invoked |-> res.invoked,
                    kind |-> "serve",
                    r |-> r,
                    w |-> res.w]
    /\ UNCHANGED << store, storeAtCreds, hnd, mux, defaultMux, muxChecker,
                    reqs, signer, lastCall >>

Init ==
    /\ store \in InitialMaps
    /\ storeAtCreds = store
    /\ hnd = NewHandler(fixedChecker(FALSE), Downstream("d1"))
    /\ last = NoCall
    /\ mux = << >>
    /\ defaultMux = << >>
    /\ muxChecker = fixedChecker(FALSE)
    /\ reqs = << >>
    /\ signer = [Pass |-> EmptyString,
                 User |-> EmptyString,
                 kind |-> "BasicAuthSigner"]
    /\ lastCall = NoCall

Next ==
    \/ \E u \in Users, p \in Passes : OwnerSet(u, p)
    \/ \E u \in Users : OwnerDelete(u)
    \/ \E c \in Checkers : BuildHandler(c)
    \/ \E c \in Checkers : BuildHandlerFunc(c)
    \/ \E c \in DirectCheckers, u \in ReqUsers, p \in Passes : CheckCall(c, u, p)
    \/ \E a \in AuthInputs : Serve(GetRequest("/f", a))

Spec == Init /\ [][Next]_vars

(* ------------------------------------------------------------------ *)
(* Properties of the handler and the checkers (Spec)                  *)
(* ------------------------------------------------------------------ *)

\* The credentials the last served request carried.
LastAuth == BasicAuth(last.r)

\* What Check answers for the last served request.
LastCheckOK == Check(CheckerOf(last.h), LastAuth.username, LastAuth.password)

\* The rejection: 401, WWW-Authenticate: Basic (in the header map under the
\* canonical spelling "Www-Authenticate") and nothing else, body
\* "Unauthorized".
RejectionResponse ==
    [Body |-> "Unauthorized",
     Code |-> 401,
     Header |-> (<< 87, 119, 119, 45, 65, 117, 116, 104, 101, 110, 116, 105,
                    99, 97, 116, 101 >> :> << "Basic" >>),
     wroteHeader |-> TRUE]

\* What handlerFuncOK leaves on a fresh recorder.
OKResponse ==
    [Body |-> "OK", Code |-> 200, Header |-> << >>, wroteHeader |-> TRUE]

\* C1: a request for which Check returns false is answered with status 401,
\* the header WWW-Authenticate equal to exactly "Basic", the body
\* "Unauthorized" and nothing else, and the downstream handler is not invoked.
C1_RejectedWhenCheckFalse ==
    (last.kind = "serve" /\ ~LastCheckOK) =>
        /\ last.w = RejectionResponse
        /\ ResponseHeaderGet(last.w, WWWAuthenticate) = "Basic"
        /\ last.invoked = << >>

\* C1 happens: a Creds-guarded handler served a request with well-formed
\* credentials the store does not hold.
C1_Witness ==
    /\ last.kind = "serve"
    /\ CheckerOf(last.h).kind = "creds"
    /\ LastAuth.ok
    /\ ~LastCheckOK
    /\ last.w.Code = 401

\* C2: a request for which Check returns true reaches the downstream handler
\* exactly once, with the original request and the untouched recorder; the
\* wrapper adds no status, body or WWW-Authenticate header, so the response
\* is the downstream's 200 "OK".
C2_ForwardedWhenCheckTrue ==
    (last.kind = "serve" /\ LastCheckOK) =>
        /\ last.invoked = << [d |-> DownstreamOf(last.h).d, r |-> last.r,
                              w |-> NewRecorder] >>
        /\ ResponseHeaderGet(last.w, WWWAuthenticate) = ""
        /\ last.w = OKResponse

\* C2 happens: a Creds-guarded handler served a request with credentials the
\* store holds.
C2_Witness ==
    /\ last.kind = "serve"
    /\ CheckerOf(last.h).kind = "creds"
    /\ LastAuth.ok
    /\ LastCheckOK
    /\ Len(last.invoked) = 1

\* C3: for the map as it is (nil included) and every (u, p), Creds(m).Check
\* returns true exactly when the map holds key u with a value equal to p; a
\* direct call returned that answer.
C3_CredsCheckIffStored ==
    /\ \A u \in ReqUsers, p \in Passes :
          Check(Creds("m"), u, p) <=>
              (u \in DOMAIN store.kv /\ store.kv[u] = p)
    /\ store.isNil => \A u \in ReqUsers, p \in Passes : ~Check(Creds("m"), u, p)
    /\ (last.kind = "check" /\ last.c.kind = "creds") =>
          (last.result <=>
              (last.u \in DOMAIN store.kv /\ store.kv[last.u] = last.p))

\* C3 happens: Check("", "") was called on a store that maps "" to "" and
\* returned true, while "a" is not stored.
C3_Witness ==
    /\ last.kind = "check"
    /\ last.c.kind = "creds"
    /\ last.u = EmptyString
    /\ last.p = EmptyString
    /\ last.result
    /\ << 97 >> \notin DOMAIN store.kv

\* C4 as claimed: whatever the checker, a request whose Authorization header
\* is absent, malformed, of another scheme or undecodable is answered with
\* the 401 rejection and does not reach the downstream handler.
C4_Original ==
    (last.kind = "serve" /\ ~LastAuth.ok) =>
        /\ last.w = RejectionResponse
        /\ last.invoked = << >>

\* C4 amended: such a request is handled as the credentials ("", ""): it is
\* rejected with the 401 when the checker's Check("", "") is false and it is
\* forwarded to the downstream handler when Check("", "") is true; there is
\* no third outcome.
C4_NoCredentialsDecidedByCheck ==
    (last.kind = "serve" /\ ~LastAuth.ok) =>
        /\ LastAuth.username = EmptyString
        /\ LastAuth.password = EmptyString
        /\ IF Check(CheckerOf(last.h), EmptyString, EmptyString)
           THEN /\ last.w = OKResponse
                /\ Len(last.invoked) = 1
           ELSE /\ last.w = RejectionResponse
                /\ last.invoked = << >>

\* C4 happens: a request with a non-empty unusable Authorization value was
\* served by a Creds-guarded handler whose store maps "" to "", and forwarded.
C4_Witness ==
    /\ last.kind = "serve"
    /\ last.r.auth # << >>
    /\ ~LastAuth.ok
    /\ CheckerOf(last.h).kind = "creds"
    /\ last.w = OKResponse

\* C7: None.Check is true for every pair, and a handler guarded by None
\* forwards every request, with or without usable credentials, and never
\* answers 401.
C7_NoneForwardsEverything ==
    /\ \A u \in ReqUsers, p \in Passes : Check(None, u, p)
    /\ (last.kind = "check" /\ last.c = None) => last.result
    /\ (last.kind = "serve" /\ CheckerOf(last.h) = None) =>
          /\ last.w = OKResponse
          /\ Len(last.invoked) = 1

\* C7 happens: a None-guarded handler served a request whose Authorization
\* value is not usable.
C7_Witness ==
    /\ last.kind = "serve"
    /\ CheckerOf(last.h) = None
    /\ last.r.auth # << >>
    /\ ~LastAuth.ok
    /\ last.w.Code = 200

\* C8: after any owner writes and deletes, a Check on the checker made by
\* Creds(m) answers by the map as it is at the call, not as it was when
\* Creds was called, and a Check call leaves the map as it found it (so a
\* repeated call finds the same map and gives the same answer).
C8_CheckSeesCurrentMap ==
    /\ [](  (last.kind = "check" /\ last.c.kind = "creds") =>
              (last.result <=>
                  MapLookup(store, last.u) = [ok |-> TRUE, p |-> last.p]))
    /\ [][ (last' # last /\ last'.kind = "check") => store' = store ]_vars

\* C8 happens: a Check answered true for an entry written after Creds(m) was
\* called, the same input having been invalid at that time.
C8_Witness ==
    /\ last.kind = "check"
    /\ last.c.kind = "creds"
    /\ last.result
    /\ MapLookup(storeAtCreds, last.u) # [ok |-> TRUE, p |-> last.p]
    /\ store # storeAtCreds

(* ------------------------------------------------------------------ *)
(* Routing: ServeMux and the package-level Handle/HandleFunc (SpecMux) *)
(* ------------------------------------------------------------------ *)

\* The patterns registered; a request is routed by its exact path.
Patterns == ValidURLs

\* The path no pattern is registered for.
UnroutedURL == "/x"

\* The downstream handler the package-level registrations attach to a
\* pattern.
DefaultDownstream(pattern) == IF pattern = "/f" THEN "d1" ELSE "d2"

\* The Authorization header lists of the routed requests: none, a:p, a:"".
MuxAuthInputs ==
    { << >>, << BasicValue(<< 97 >>, << 112 >>) >>,
      << BasicValue(<< 97 >>, EmptyString) >> }

\* http.NotFound(w, r), the answer of an http.ServeMux without a match.
NotFound(st, r) ==
    [st EXCEPT !.w =
        Write(WriteHeader(
                ResponseHeaderSet(
                    ResponseHeaderSet(st.w, ContentType,
                                      "text/plain; charset=utf-8"),
                    XContentTypeOptions, "nosniff"),
                404),
              "404 page not found\n")]

\* The handler an http.ServeMux answers with when no pattern matches.
NotFoundHandler == [kind |-> "NotFoundHandler"]

\* (*http.ServeMux).Handler(r): the handler registered for the request's
\* path, read under the mux's lock.
MuxHandler(m, r) == IF r.url \in DOMAIN m THEN m[r.url] ELSE NotFoundHandler

\* h.ServeHTTP(w, r) on the handler the mux found.
RoutedServeHTTP(h, st, r) ==
    IF h = NotFoundHandler THEN NotFound(st, r) ELSE ServeHTTP(h, st, r)

\* NewServeMux(c, http.NewServeMux()): the wrapper's two fields.
NewServeMux(c) == [ServeMux |-> << >>, c |-> c]

\* ServeMux.Handle(pattern, h); http.ServeMux panics on a pattern that is
\* registered already.
ServeMuxHandle(pattern, d) ==
    /\ pattern \notin DOMAIN mux
    /\ mux' = (pattern :> NewHandler(muxChecker, Downstream(d))) @@ mux
    /\ UNCHANGED << store, storeAtCreds, hnd, last, defaultMux, muxChecker,
                    reqs, signer, lastCall >>

\* ServeMux.HandleFunc(pattern, h).
ServeMuxHandleFunc(pattern, d) ==
    /\ pattern \notin DOMAIN mux
    /\ mux' = (pattern :> HandlerFunc(muxChecker, Downstream(d))) @@ mux
    /\ UNCHANGED << store, storeAtCreds, hnd, last, defaultMux, muxChecker,
                    reqs, signer, lastCall >>

\* Handle(c, pattern, h): http.Handle on the default mux.
Handle(c, pattern) ==
    /\ pattern \notin DOMAIN defaultMux
    /\ defaultMux' =
          (pattern :> NewHandler(c, Downstream(DefaultDownstream(pattern))))
              @@ defaultMux
    /\ UNCHANGED << store, storeAtCreds, hnd, last, mux, muxChecker, reqs,
                    signer, lastCall >>

\* HandleFunc(c, pattern, h): http.HandleFunc on the default mux.
HandleFunc(c, pattern) ==
    /\ pattern \notin DOMAIN defaultMux
    /\ defaultMux' =
          (pattern :> HandlerFunc(c, Downstream(DefaultDownstream(pattern))))
              @@ defaultMux
    /\ UNCHANGED << store, storeAtCreds, hnd, last, mux, muxChecker, reqs,
                    signer, lastCall >>

\* The serving goroutine has no request in hand.
NotServing == IF last.kind = "none" THEN TRUE ELSE last.pc = "done"

\* A request the mux has found the handler of.
Routed(which, r, h) ==
    [h |-> h,
     invoked |-> << >>,
     kind |-> "mux",
     pc |-> "routed",
     r |-> r,
     w |-> NewRecorder,
     which |-> which]

\* m.ServeHTTP(httptest.NewRecorder(), r) on the wrapped mux, up to the
\* handler lookup; the registrations of other goroutines may follow before
\* the handler runs.
ServeWrapped(r) ==
    /\ NotServing
    /\ last' = Routed("wrapped", r, MuxHandler(mux, r))
    /\ UNCHANGED << store, storeAtCreds, hnd, mux, defaultMux, muxChecker,
                    reqs, signer, lastCall >>

\* http.DefaultServeMux.ServeHTTP(httptest.NewRecorder(), r), up to the
\* handler lookup.
ServeDefault(r) ==
    /\ NotServing
    /\ last' = Routed("default", r, MuxHandler(defaultMux, r))
    /\ UNCHANGED << store, storeAtCreds, hnd, mux, defaultMux, muxChecker,
                    reqs, signer, lastCall >>

\* (*http.ServeMux).ServeHTTP: h.ServeHTTP(w, r) on the handler found.
RunRouted ==
    /\ last.kind = "mux"
    /\ last.pc = "routed"
    /\ LET res == RoutedServeHTTP(last.h, [invoked |-> last.invoked,
                                           w |-> last.w], last.r)
       IN  last' = [last EXCEPT !.invoked = res.invoked,
                                !.pc = "done",
                                !.w = res.w]
    /\ UNCHANGED << store, storeAtCreds, hnd, mux, defaultMux, muxChecker,
                    reqs, signer, lastCall >>

InitMux ==
    /\ store = MakeMap((<< 97 >> :> << 112 >>))
    /\ storeAtCreds = store
    /\ hnd = NewHandler(fixedChecker(FALSE), Downstream("d1"))
    /\ last = NoCall
    /\ \E c \in Checkers :
          /\ muxChecker = NewServeMux(c).c
          /\ mux = NewServeMux(c).ServeMux
    /\ defaultMux = << >>
    /\ reqs = << >>
    /\ signer = [Pass |-> EmptyString,
                 User |-> EmptyString,
                 kind |-> "BasicAuthSigner"]
    /\ lastCall = NoCall

NextMux ==
    \/ \E pattern \in Patterns, d \in Downstreams : ServeMuxHandle(pattern, d)
    \/ \E pattern \in Patterns, d \in Downstreams : ServeMuxHandleFunc(pattern, d)
    \/ \E c \in Checkers, pattern \in Patterns : Handle(c, pattern)
    \/ \E c \in Checkers, pattern \in Patterns : HandleFunc(c, pattern)
    \/ \E u \in Patterns \cup { UnroutedURL }, a \in MuxAuthInputs :
          ServeWrapped(GetRequest(u, a))
    \/ \E u \in Patterns \cup { UnroutedURL }, a \in MuxAuthInputs :
          ServeDefault(GetRequest(u, a))
    \/ RunRouted

SpecMux == InitMux /\ [][NextMux]_vars

\* The mux the last routed request went through.
LastMux == IF last.which = "wrapped" THEN mux ELSE defaultMux

\* The handler the last routed request was routed to.
LastRouted == LastMux[last.r.url]

\* The same checker and downstream wrapped by the other registration form.
OtherForm(h) ==
    IF h.kind = "handler"
    THEN HandlerFunc(h.c, h.Handler)
    ELSE NewHandler(h.f.c, h.f.Handler)

\* A handler is an authenticating handler: built by NewHandler or HandlerFunc.
IsAuthenticating(h) == h.kind \in { "handler", "HandlerFunc" }

\* C6: every pattern registered through the ServeMux wrapper or the
\* package-level functions is served by an authenticating handler (the
\* wrapper's with the wrapper's one Checker), whatever registrations happen
\* while a request is between its lookup and its handler; a routed request
\* is handled by the handler registered for its pattern, reaches the
\* downstream handler registered for its pattern, once, only if Check
\* returned true for it, is answered with the 401 otherwise, and gets the
\* same answer the other registration form would have given.
C6_RegisteredPatternsAuthenticate ==
    /\ \A pattern \in DOMAIN mux :
          /\ IsAuthenticating(mux[pattern])
          /\ CheckerOf(mux[pattern]) = muxChecker
    /\ \A pattern \in DOMAIN defaultMux : IsAuthenticating(defaultMux[pattern])
    /\ (last.kind = "mux" /\ last.h # NotFoundHandler) =>
          /\ last.r.url \in DOMAIN LastMux
          /\ last.h = LastRouted
    /\ (last.kind = "mux" /\ last.pc = "routed") =>
          /\ last.invoked = << >>
          /\ last.w = NewRecorder
    /\ (last.kind = "mux" /\ last.pc = "done" /\ last.h # NotFoundHandler) =>
          LET h == last.h
              ba == BasicAuth(last.r)
              ok == Check(CheckerOf(h), ba.username, ba.password)
          IN  /\ last.invoked =
                    IF ok
                    THEN << [d |-> DownstreamOf(h).d, r |-> last.r,
                             w |-> NewRecorder] >>
                    ELSE << >>
              /\ last.w = IF ok THEN OKResponse ELSE RejectionResponse
              /\ [invoked |-> last.invoked, w |-> last.w] =
                    ServeHTTP(OtherForm(h),
                              [invoked |-> << >>, w |-> NewRecorder], last.r)

\* C6 happens: with both forms registered on the wrapped mux under the Creds
\* checker, a request routed to the HandleFunc-registered pattern has been
\* rejected by its handler.
C6_Witness ==
    /\ last.kind = "mux"
    /\ last.pc = "done"
    /\ last.which = "wrapped"
    /\ DOMAIN mux = Patterns
    /\ \E p1, p2 \in Patterns : mux[p1].kind = "handler" /\ mux[p2].kind = "HandlerFunc"
    /\ last.h.kind = "HandlerFunc"
    /\ muxChecker.kind = "creds"
    /\ last.w = RejectionResponse

(* ------------------------------------------------------------------ *)
(* Concurrent requests on one handler (SpecConc)                      *)
(* ------------------------------------------------------------------ *)

\* The Authorization header lists of the concurrent requests: none, a:p,
\* a:"", and a:p under the lower-case scheme.
ConcAuthInputs ==
    { << >>, << BasicValue(<< 97 >>, << 112 >>) >>,
      << BasicValue(<< 97 >>, EmptyString) >>, << LowerCaseValue >> }

IdleReq ==
    [invoked |-> << >>,
     ok |-> FALSE,
     pc |-> "idle",
     r |-> GetRequest("/f", << >>),
     w |-> NewRecorder]

ConcUnchanged ==
    UNCHANGED << store, storeAtCreds, hnd, last, mux, defaultMux, muxChecker,
                 signer, lastCall >>

\* The server hands request r and a fresh ResponseWriter to goroutine i.
Accept(i, r) ==
    /\ reqs[i].pc = "idle"
    /\ reqs' = [reqs EXCEPT ![i] = [IdleReq EXCEPT !.pc = "start", !.r = r]]
    /\ ConcUnchanged

\* Mutant: the credentials are read from a place all requests share.
StepCheckShared(i) ==
    /\ reqs[i].pc = "start"
    /\ LET ba == BasicAuth(reqs[1].r)
           ok == Check(CheckerOf(hnd), ba.username, ba.password)
       IN  reqs' = [reqs EXCEPT ![i].ok = ok,
                                ![i].pc = IF ok THEN "forward" ELSE "addHeader"]
    /\ ConcUnchanged

\* handler.ServeHTTP: r.BasicAuth() and h.c.Check(username, password).
StepCheck(i) ==
    /\ reqs[i].pc = "start"
    /\ LET ba == BasicAuth(reqs[i].r)
           ok == Check(CheckerOf(hnd), ba.username, ba.password)
       IN  reqs' = [reqs EXCEPT ![i].ok = ok,
                                ![i].pc = IF ok THEN "forward" ELSE "addHeader"]
    /\ ConcUnchanged

\* handler.ServeHTTP: w.Header().Add("WWW-Authenticate", "Basic").
StepAddHeader(i) ==
    /\ reqs[i].pc = "addHeader"
    /\ reqs' = [reqs EXCEPT
                  ![i].w = ResponseHeaderAdd(@, WWWAuthenticate, "Basic"),
                  ![i].pc = "writeHeader"]
    /\ ConcUnchanged

\* handler.ServeHTTP: w.WriteHeader(http.StatusUnauthorized).
StepWriteHeader(i) ==
    /\ reqs[i].pc = "writeHeader"
    /\ reqs' = [reqs EXCEPT ![i].w = WriteHeader(@, StatusUnauthorized),
                            ![i].pc = "writeBody"]
    /\ ConcUnchanged

\* handler.ServeHTTP: w.Write(StatusText(StatusUnauthorized)); return.
StepWriteBody(i) ==
    /\ reqs[i].pc = "writeBody"
    /\ reqs' = [reqs EXCEPT
                  ![i].w = Write(@, StatusText(StatusUnauthorized)),
                  ![i].pc = "done"]
    /\ ConcUnchanged

\* handler.ServeHTTP: h.Handler.ServeHTTP(w, r); handlerFuncOK starts with
\* w.WriteHeader(http.StatusOK).
StepForward(i) ==
    /\ reqs[i].pc = "forward"
    /\ reqs' = [reqs EXCEPT
                  ![i].invoked = Append(@, [d |-> DownstreamOf(hnd).d,
                                            r |-> reqs[i].r, w |-> reqs[i].w]),
                  ![i].w = WriteHeader(@, StatusOK),
                  ![i].pc = "downstreamWrite"]
    /\ ConcUnchanged

\* handlerFuncOK: w.Write(StatusText(StatusOK)); return.
StepDownstreamWrite(i) ==
    /\ reqs[i].pc = "downstreamWrite"
    /\ reqs' = [reqs EXCEPT ![i].w = Write(@, StatusText(StatusOK)),
                            ![i].pc = "done"]
    /\ ConcUnchanged

InitConc ==
    /\ store \in InitialMaps
    /\ storeAtCreds = store
    /\ hnd \in { NewHandler(c, Downstream("d1")) : c \in Checkers }
               \cup { HandlerFunc(c, Downstream("d1")) : c \in Checkers }
    /\ last = NoCall
    /\ mux = << >>
    /\ defaultMux = << >>
    /\ muxChecker = fixedChecker(FALSE)
    /\ reqs = [i \in 1..NumReqs |-> IdleReq]
    /\ signer = [Pass |-> EmptyString,
                 User |-> EmptyString,
                 kind |-> "BasicAuthSigner"]
    /\ lastCall = NoCall

NextConc ==
    \E i \in 1..NumReqs :
        \/ \E a \in ConcAuthInputs : Accept(i, GetRequest("/f", a))
        \/ StepCheck(i)
        \/ StepAddHeader(i)
        \/ StepWriteHeader(i)
        \/ StepWriteBody(i)
        \/ StepForward(i)
        \/ StepDownstreamWrite(i)

SpecConc == InitConc /\ [][NextConc]_vars

\* What Check answers for request i's own credentials.
OwnCheck(i) ==
    LET ba == BasicAuth(reqs[i].r)
    IN  Check(CheckerOf(hnd), ba.username, ba.password)

\* C9: under every interleaving of the requests in flight, a request's
\* outcome follows from its own credentials and the checker: one whose Check
\* is false never reaches the downstream handler and ends with the 401 on
\* its own recorder, one whose Check is true reaches the downstream handler
\* exactly once and ends with its 200 "OK"; and no step of a request changes
\* the handler (its checker, its downstream) or the map.
C9_ConcurrentRequestsIndependent ==
    /\ [](\A i \in 1..NumReqs :
            /\ reqs[i].pc \notin { "idle", "start" } => reqs[i].ok = OwnCheck(i)
            /\ ~OwnCheck(i) => reqs[i].invoked = << >>
            /\ Len(reqs[i].invoked) <= 1
            /\ reqs[i].pc = "done" =>
                  IF OwnCheck(i)
                  THEN /\ reqs[i].w = OKResponse
                       /\ reqs[i].invoked =
                             << [d |-> DownstreamOf(hnd).d, r |-> reqs[i].r,
                                 w |-> NewRecorder] >>
                  ELSE /\ reqs[i].w = RejectionResponse
                       /\ reqs[i].invoked = << >>)
    /\ [][hnd' = hnd /\ store' = store]_vars

\* C9 happens: under a Creds checker, request 1 (valid credentials) is inside
\* the downstream handler while request 2 (invalid credentials) has had its
\* rejection written.
C9_Witness ==
    /\ CheckerOf(hnd).kind = "creds"
    /\ reqs[1].pc = "downstreamWrite"
    /\ reqs[2].pc = "done"
    /\ reqs[2].w = RejectionResponse
    /\ reqs[1].r # reqs[2].r

(* ------------------------------------------------------------------ *)
(* The signing client (SpecClient)                                    *)
(* ------------------------------------------------------------------ *)

\* BasicAuthSigner{User, Pass}.
BasicAuthSigner(user, pass) ==
    [Pass |-> pass, User |-> user, kind |-> "BasicAuthSigner"]

\* A Signer whose Sign fails and leaves the request alone.
FailingSigner == [kind |-> "failing"]

\* Mutant: the arguments of SetBasicAuth are swapped.
BasicAuthSignSwapped(b, r) ==
    [err |-> "nil", req |-> SetBasicAuth(r, b.Pass, b.User)]

\* BasicAuthSigner.Sign(r): [err, req], req being r after the call.
BasicAuthSign(b, r) ==
    [err |-> "nil", req |-> SetBasicAuth(r, b.User, b.Pass)]

\* s.Sign(r) on the Signer interface.
Sign(s, r) ==
    IF s.kind = "BasicAuthSigner" THEN BasicAuthSign(s, r)
    ELSE [err |-> "errSign", req |-> r]

\* The usernames signers hold: those of the requests and ":".
SignerUsers == ReqUsers \cup { << 58 >> }

Signers ==
    { BasicAuthSigner(u, p) : u \in SignerUsers, p \in Passes }
        \cup { FailingSigner }

SignEvent(req, sg) == [err |-> sg.err,
                       op |-> "Sign",
                       out |-> sg.req,
                       r |-> req]

TransportEvent(client, req) == [client |-> client,
                                op |-> "Transport",
                                r |-> req]

\* A call that returned the error of http.NewRequest: no request was built.
Failed(s, client, err) ==
    [client |-> client,
     err |-> err,
     events |-> << >>,
     invoked |-> << >>,
     pc |-> "returned",
     req |-> "nil",
     resp |-> "nil",
     s |-> s]

\* A call at the first statement of Do: the signer, the *http.Client and the
\* request it holds.
InDo(s, client, req) ==
    [client |-> client,
     err |-> "nil",
     events |-> << >>,
     invoked |-> << >>,
     pc |-> "Sign",
     req |-> req,
     resp |-> "nil",
     s |-> s]

\* (*Client).Do(req), entered.
ClientDo(c, req) == InDo(c.Signer, c.Client, req)

\* (*Client).Get(url).
ClientGet(c, url) ==
    LET n == NewRequest("GET", url, "")
    IN  IF n.err # "nil" THEN Failed(c.Signer, c.Client, n.err)
        ELSE ClientDo(c, n.req)

\* (*Client).Head(url).
ClientHead(c, url) ==
    LET n == NewRequest("HEAD", url, "")
    IN  IF n.err # "nil" THEN Failed(c.Signer, c.Client, n.err)
        ELSE ClientDo(c, n.req)

\* (*Client).Post(url, bodyType, body).
ClientPost(c, url, bodyType, body) ==
    LET n == NewRequest("POST", url, body)
    IN  IF n.err # "nil" THEN Failed(c.Signer, c.Client, n.err)
        ELSE ClientDo(c, [n.req EXCEPT !.contentType = bodyType])

\* (*Client).PostForm(url, data); data stands for data.Encode().
ClientPostForm(c, url, data) ==
    ClientPost(c, url, "application/x-www-form-urlencoded", data)

\* Do(s, client, req), entered.
PkgDo(s, client, req) == InDo(s, client, req)

\* Get(s, client, url).
PkgGet(s, client, url) ==
    LET n == NewRequest("GET", url, "")
    IN  IF n.err # "nil" THEN Failed(s, client, n.err)
        ELSE PkgDo(s, client, n.req)

\* Head(s, client, url).
PkgHead(s, client, url) ==
    LET n == NewRequest("HEAD", url, "")
    IN  IF n.err # "nil" THEN Failed(s, client, n.err)
        ELSE PkgDo(s, client, n.req)

\* Post(s, client, url, bodyType, body).
PkgPost(s, client, url, bodyType, body) ==
    LET n == NewRequest("POST", url, body)
    IN  IF n.err # "nil" THEN Failed(s, client, n.err)
        ELSE PkgDo(s, client, [n.req EXCEPT !.contentType = bodyType])

\* PostForm(s, client, url, data); data stands for data.Encode().
PkgPostForm(s, client, url, data) ==
    PkgPost(s, client, url, "application/x-www-form-urlencoded", data)

\* NewClient(c, s) with the signer under test.
TheClient == [Client |-> "client", Signer |-> signer]

\* The *http.Client arguments of the package-level functions.
ClientArgs == { "client", "nil" }

\* The URLs of the calls.
CallURLs == { "/f", InvalidURL }

\* The Authorization header lists a request handed to Do already carries:
\* none, a:p, and "Basic".
PreAuthInputs ==
    { << >>, << BasicValue(<< 97 >>, << 112 >>) >>, << << 66, 97, 115, 105, 99 >> >> }

\* The caller's call: its name and arguments, and the call as it stands.
Called(fn, url, pre, call) ==
    [client |-> call.client,
     err |-> call.err,
     events |-> call.events,
     fn |-> fn,
     invoked |-> call.invoked,
     kind |-> "call",
     pc |-> call.pc,
     pre |-> pre,
     req |-> call.req,
     resp |-> call.resp,
     s |-> call.s,
     url |-> url]

ClientUnchanged ==
    UNCHANGED << store, storeAtCreds, hnd, last, mux, defaultMux, muxChecker,
                 reqs, signer >>

\* The caller has no call in progress.
NotCalling == IF lastCall.kind = "none" THEN TRUE ELSE lastCall.pc = "returned"

CallClientDo(pre) ==
    /\ NotCalling
    /\ lastCall' =
          Called("Client.Do", "/f", pre, ClientDo(TheClient, GetRequest("/f", pre)))
    /\ ClientUnchanged

CallClientGet(url) ==
    /\ NotCalling
    /\ lastCall' = Called("Client.Get", url, << >>, ClientGet(TheClient, url))
    /\ ClientUnchanged

CallClientHead(url) ==
    /\ NotCalling
    /\ lastCall' = Called("Client.Head", url, << >>, ClientHead(TheClient, url))
    /\ ClientUnchanged

CallClientPost(url) ==
    /\ NotCalling
    /\ lastCall' =
          Called("Client.Post", url, << >>,
                 ClientPost(TheClient, url, "text/plain", "body"))
    /\ ClientUnchanged

CallClientPostForm(url) ==
    /\ NotCalling
    /\ lastCall' =
          Called("Client.PostForm", url, << >>,
                 ClientPostForm(TheClient, url, "k=v"))
    /\ ClientUnchanged

CallDo(client, pre) ==
    /\ NotCalling
    /\ lastCall' =
          Called("Do", "/f", pre, PkgDo(signer, client, GetRequest("/f", pre)))
    /\ ClientUnchanged

CallGet(client, url) ==
    /\ NotCalling
    /\ lastCall' = Called("Get", url, << >>, PkgGet(signer, client, url))
    /\ ClientUnchanged

CallHead(client, url) ==
    /\ NotCalling
    /\ lastCall' = Called("Head", url, << >>, PkgHead(signer, client, url))
    /\ ClientUnchanged

CallPost(client, url) ==
    /\ NotCalling
    /\ lastCall' =
          Called("Post", url, << >>,
                 PkgPost(signer, client, url, "text/plain", "body"))
    /\ ClientUnchanged

CallPostForm(client, url) ==
    /\ NotCalling
    /\ lastCall' =
          Called("PostForm", url, << >>, PkgPostForm(signer, client, url, "k=v"))
    /\ ClientUnchanged

\* Mutant: the error of Sign is not looked at.
StepSignIgnoringError ==
    /\ lastCall.kind = "call"
    /\ lastCall.pc = "Sign"
    /\ LET sg == Sign(lastCall.s, lastCall.req)
       IN  lastCall' =
              [lastCall EXCEPT
                 !.events = Append(@, SignEvent(lastCall.req, sg)),
                 !.pc = "Transport",
                 !.req = sg.req]
    /\ ClientUnchanged

\* Do: err := Sign(req); a Sign error is returned with a nil response.
StepSign ==
    /\ lastCall.kind = "call"
    /\ lastCall.pc = "Sign"
    /\ LET sg == Sign(lastCall.s, lastCall.req)
       IN  lastCall' =
              IF sg.err # "nil"
              THEN [lastCall EXCEPT
                      !.err = sg.err,
                      !.events = Append(@, SignEvent(lastCall.req, sg)),
                      !.pc = "returned"]
              ELSE [lastCall EXCEPT
                      !.events = Append(@, SignEvent(lastCall.req, sg)),
                      !.pc = "Transport",
                      !.req = sg.req]
    /\ ClientUnchanged

\* Do: the request is handed to (*http.Client).Do, of http.DefaultClient
\* when the package-level client is nil; the request goes out, or the
\* network fails and Do returns the error.
StepTransport(net) ==
    /\ lastCall.kind = "call"
    /\ lastCall.pc = "Transport"
    /\ LET cl == IF lastCall.client = "nil" THEN "DefaultClient"
                 ELSE lastCall.client
           ev == Append(lastCall.events, TransportEvent(cl, lastCall.req))
       IN  lastCall' =
              IF net
              THEN [lastCall EXCEPT !.events = ev, !.pc = "Server"]
              ELSE [lastCall EXCEPT !.err = "errNet",
                                    !.events = ev,
                                    !.pc = "returned"]
    /\ ClientUnchanged

\* The server's handler serves the request that went out, while the caller
\* waits in (*http.Client).Do.
StepServer ==
    /\ lastCall.kind = "call"
    /\ lastCall.pc = "Server"
    /\ LET res == ServeHTTP(hnd, [invoked |-> << >>, w |-> NewRecorder],
                            lastCall.req)
       IN  lastCall' = [lastCall EXCEPT !.invoked = res.invoked,
                                        !.pc = "Response",
                                        !.resp = res.w]
    /\ ClientUnchanged

\* (*http.Client).Do returns the response, and Do returns it to the caller.
StepResponse ==
    /\ lastCall.kind = "call"
    /\ lastCall.pc = "Response"
    /\ lastCall' = [lastCall EXCEPT !.pc = "returned"]
    /\ ClientUnchanged

\* The maps the server's Creds is built on: nil, empty, and "" stored with
\* the empty password.
ClientMaps ==
    { NilMap, MakeMap(<< >>), MakeMap(EmptyString :> EmptyString) }

\* The username whose entry the owner writes and deletes while calls are
\* made: "a".
ClientOwnerUsers == { << 97 >> }

InitClient ==
    /\ store \in ClientMaps
    /\ storeAtCreds = store
    /\ hnd = NewHandler(Creds("m"), Downstream("d1"))
    /\ last = NoCall
    /\ mux = << >>
    /\ defaultMux = << >>
    /\ muxChecker = fixedChecker(FALSE)
    /\ reqs = << >>
    /\ signer \in Signers
    /\ lastCall = NoCall

NextClient ==
    \/ \E pre \in PreAuthInputs : CallClientDo(pre)
    \/ \E url \in CallURLs : CallClientGet(url)
    \/ \E url \in CallURLs : CallClientHead(url)
    \/ \E url \in CallURLs : CallClientPost(url)
    \/ \E url \in CallURLs : CallClientPostForm(url)
    \/ \E cl \in ClientArgs, pre \in PreAuthInputs : CallDo(cl, pre)
    \/ \E cl \in ClientArgs, url \in CallURLs : CallGet(cl, url)
    \/ \E cl \in ClientArgs, url \in CallURLs : CallHead(cl, url)
    \/ \E cl \in ClientArgs, url \in CallURLs : CallPost(cl, url)
    \/ \E cl \in ClientArgs, url \in CallURLs : CallPostForm(cl, url)
    \/ StepSign
    \/ \E net \in BOOLEAN : StepTransport(net)
    \/ StepServer
    \/ StepResponse
    \/ \E u \in ClientOwnerUsers, p \in Passes : OwnerSet(u, p)
    \/ \E u \in ClientOwnerUsers : OwnerDelete(u)

SpecClient == InitClient /\ [][NextClient]_vars

\* The HTTP method each call builds its request with.
MethodOf(fn) ==
    CASE fn \in { "Client.Do", "Do", "Client.Get", "Get" } -> "GET"
      [] fn \in { "Client.Head", "Head" } -> "HEAD"
      [] OTHER -> "POST"

\* C5: in every call of Do/Get/Head/Post/PostForm, on the Client or at
\* package level, and at every point of the call, the transport is
\* dispatched only after Sign was invoked on the call's request and returned
\* nil, and with the request as Sign left it; a response is there only
\* after the transport was dispatched; when Sign returns an error the call
\* returns a nil response and that error and the transport is not invoked.
C5_SignBeforeTransport ==
    lastCall.kind = "call" =>
        LET ev == lastCall.events
        IN  /\ \A k \in 1..Len(ev) :
                  ev[k].op = "Transport" =>
                      /\ k = 2
                      /\ ev[1].op = "Sign"
                      /\ ev[1].err = "nil"
                      /\ ev[1].r.url = lastCall.url
                      /\ ev[1].r.method = MethodOf(lastCall.fn)
                      /\ ev[1].r.auth = lastCall.pre
                      /\ ev[k].r = ev[1].out
            /\ \A k \in 1..Len(ev) :
                  (ev[k].op = "Sign" /\ ev[k].err # "nil") =>
                      /\ lastCall.pc = "returned"
                      /\ lastCall.resp = "nil"
                      /\ lastCall.err = ev[k].err
                      /\ \A j \in 1..Len(ev) : ev[j].op # "Transport"
            /\ lastCall.pc \in { "Server", "Response" } => Len(ev) = 2
            /\ Len(ev) < 2 =>
                  /\ lastCall.resp = "nil"
                  /\ lastCall.invoked = << >>
            /\ lastCall.s = FailingSigner =>
                  \A j \in 1..Len(ev) : ev[j].op # "Transport"

\* C5 happens: PostForm on a client whose signer fails returned the signing
\* error after Sign was invoked.
C5_Witness ==
    /\ lastCall.kind = "call"
    /\ lastCall.pc = "returned"
    /\ lastCall.fn = "Client.PostForm"
    /\ signer = FailingSigner
    /\ Len(lastCall.events) = 1
    /\ lastCall.events[1].op = "Sign"
    /\ lastCall.err = "errSign"
    /\ lastCall.resp = "nil"

\* The request as Sign left it in the call at hand.
Signed == lastCall.events[1].out

\* The server's handler answers the call at hand in this step.
ServerAnswers ==
    /\ lastCall.kind = "call"
    /\ lastCall.pc = "Server"
    /\ lastCall'.pc = "Response"

\* C10: a request signed by BasicAuthSigner{user, pass} carries exactly one
\* Authorization value, the Basic encoding of user:pass, whatever it carried
\* before, and Sign returns nil; when user holds no colon the handler
\* decodes it to exactly (user, pass), splitting at the first colon, the
\* request goes out as signed, and a Creds-guarded handler forwards it
\* exactly when the store maps user to pass at the time it serves it,
\* whatever the owner wrote between the signing and the serving.
C10_SignedRequestRoundTrip ==
    /\ []((lastCall.kind = "call" /\ lastCall.s.kind = "BasicAuthSigner"
             /\ Len(lastCall.events) >= 1) =>
            /\ lastCall.events[1].err = "nil"
            /\ Len(Signed.auth) = 1
            /\ Signed.auth[1] = BasicValue(lastCall.s.User, lastCall.s.Pass)
            /\ IndexColon(lastCall.s.User) = 0 =>
                  BasicAuth(Signed) = [ok |-> TRUE,
                                       password |-> lastCall.s.Pass,
                                       username |-> lastCall.s.User]
            /\ lastCall.pc \in { "Server", "Response" } => lastCall.req = Signed)
    /\ [][(ServerAnswers /\ lastCall.s.kind = "BasicAuthSigner"
             /\ IndexColon(lastCall.s.User) = 0) =>
            LET stored == MapLookup(store, lastCall.s.User) =
                              [ok |-> TRUE, p |-> lastCall.s.Pass]
            IN  /\ (lastCall'.invoked # << >>) <=> stored
                /\ lastCall'.resp =
                      IF stored THEN OKResponse ELSE RejectionResponse]_vars

\* C10 happens: a request that carried another Authorization value was
\* signed with a password holding a colon and forwarded by the server.
C10_Witness ==
    /\ lastCall.kind = "call"
    /\ lastCall.pc = "returned"
    /\ lastCall.s.kind = "BasicAuthSigner"
    /\ lastCall.s.User = << 97 >>
    /\ IndexColon(lastCall.s.Pass) # 0
    /\ lastCall.pre = << BasicValue(<< 97 >>, << 112 >>) >>
    /\ lastCall.invoked # << >>
    /\ lastCall.resp = OKResponse
====
